---- MODULE Spec2Model ----
(***************************************************************************)
(* Model of the Plutus payment ledger (src/plutus.py): the points ledger,  *)
(* the withdrawal queue, the transaction history and the gift card vault.  *)
(*                                                                         *)
(* Python dictionaries that are shared by reference (a withdrawal is the   *)
(* same object in the queue, in the transaction history and in the         *)
(* account's withdrawal_history) are modelled by a heap `objs` of          *)
(* withdrawal records; the collections hold indices into the heap.         *)
(*                                                                         *)
(* Money: a conversion rate is an integer number of 1/10000 currency       *)
(* units per point (0.01 is 100), so points * rate is exact.               *)
(* An optional value (Python None, or a dictionary key that is not set)    *)
(* is <<>>, a present value v is <<v>>.                                    *)
(* encryption_key is the key the object holds; gift_cards is the table of  *)
(* the payment monitor's database (src/real_payment_monitor.py).           *)
(* files is what save_financial_data has written to plutus_ledger.json and *)
(* plutus_vault.json.                                                      *)
(* Time: every handler call takes one reading of the clock; an id that the *)
(* code derives by hashing a string is the tuple of the string's parts.    *)
(***************************************************************************)
EXTENDS Integers, Sequences, FiniteSets, TLC

VARIABLES points_ledger, withdrawal_queue, transaction_history,
          gift_card_vault, objs, clock, ret, thr, encryption_key, gift_cards,
          files

vars == <<points_ledger, withdrawal_queue, transaction_history,
          gift_card_vault, objs, clock, ret, thr, encryption_key, gift_cards,
          files>>

(* ---------------- bounds of the model ---------------- *)
MaxCredits == 2
MaxClock == 1
NThreads == 2
MaxAppends == 1002
MaxCards == 2
MaxRows == 2

(* ---------------- program constants ---------------- *)
HistoryCap == 1000
DefaultRate == 100
DefaultThreshold == 1000

None == <<>>
Some(x) == <<x>>

\* neither plutus_ledger.json nor plutus_vault.json exists
NoFiles == [ledger |-> None, vault |-> None]

\* the key _get_or_create_key derives from a fixed string when no key file exists
DefaultKey == "sha256.plutus_secret_key"

Sites == {"swagbucks.com", "cointiply.com", "current_site"}

(* rates a caller passes: zero and 0.0001 *)
Rates == {Some(0), Some(1)}

\* thresholds.get(site, thresholds['default'])
_get_site_threshold(site) ==
    CASE site = "swagbucks.com" -> 300
      [] site = "surveyjunkie.com" -> 1000
      [] site = "prolific.co" -> 500
      [] site = "cointiply.com" -> 35000
      [] site = "freecash.com" -> 5000
      [] OTHER -> DefaultThreshold

(* points a caller passes: for current_site a negative number, one point,  *)
(* one point short of the threshold and the threshold; for the other sites *)
(* the site's threshold                                                    *)
PointsFor(site) ==
    IF site = "current_site"
    THEN {-1, 1, _get_site_threshold(site) - 1, _get_site_threshold(site)}
    ELSE {_get_site_threshold(site)}

_determine_withdrawal_type(site) ==
    IF site \in {"cointiply.com", "freecash.com", "timebucks.com"} THEN "crypto"
    ELSE IF site \in {"swagbucks.com", "surveyjunkie.com", "inboxdollars.com"} THEN "gift_card"
    ELSE "paypal"

\* the address pool of _initialize_crypto_addresses, by key: the primary address
crypto_addresses ==
    [k \in {"ethereum", "bitcoin", "toncoin", "usdt_ton", "usdt_eth"} |->
        CASE k = "ethereum" -> "0xAE909dDcf7e38F7Ed866c17D7245b36E8077dc77"
          [] k = "bitcoin" -> "bc1q.primary_btc"
          [] k = "toncoin" -> "EQ.primary_ton"
          [] k = "usdt_ton" -> "EQ.primary_usdt_ton"
          [] k = "usdt_eth" -> "0xAE909dDcf7e38F7Ed866c17D7245b36E8077dc77"]

get_crypto_address(currency, network) ==
    LET currency_key ==
            CASE currency \in {"ethereum", "eth"} -> "ethereum"
              [] currency \in {"bitcoin", "btc"} -> "bitcoin"
              [] currency \in {"toncoin", "ton"} -> "toncoin"
              [] currency = "usdt" -> (IF network = "ethereum" THEN "usdt_eth" ELSE "usdt_ton")
              [] OTHER -> "none"
    IN IF currency_key \in DOMAIN crypto_addresses
       THEN Some(crypto_addresses[currency_key]) ELSE None

(* ---------------- the transaction history ---------------- *)
\* a trim that keeps the oldest HistoryCap transactions
Mut_log_transaction_trim(hist, transaction_type, data, now) ==
    LET h == Append(hist, [id |-> <<transaction_type, now>>,
                           type |-> transaction_type,
                           timestamp |-> now,
                           data |-> data])
    IN IF Len(h) > HistoryCap THEN SubSeq(h, 1, HistoryCap) ELSE h

\* a log that puts the new transaction first
Mut_log_transaction(hist, transaction_type, data, now) ==
    LET h == <<[id |-> <<transaction_type, now>>,
                type |-> transaction_type,
                timestamp |-> now,
                data |-> data]>> \o hist
    IN IF Len(h) > HistoryCap THEN SubSeq(h, Len(h) - HistoryCap + 1, Len(h)) ELSE h

\* append one transaction, then keep only the last HistoryCap transactions
_log_transaction(hist, transaction_type, data, now) ==
    LET h == Append(hist, [id |-> <<transaction_type, now>>,
                           type |-> transaction_type,
                           timestamp |-> now,
                           data |-> data])
    IN IF Len(h) > HistoryCap THEN SubSeq(h, Len(h) - HistoryCap + 1, Len(h)) ELSE h

\* a transaction's data that is the withdrawal dictionary itself (by reference)
Ref(r) == [ref |-> r]

(* ---------------- the points ledger ---------------- *)
\* the entry track_points creates for an unseen site
NewLedgerEntry(site, conversion_rate) ==
    [total_points |-> 0,
     pending_points |-> 0,
     withdrawn_points |-> 0,
     conversion_rate |-> IF conversion_rate = None \/ conversion_rate = Some(0)
                         THEN DefaultRate ELSE conversion_rate[1],
     minimum_threshold |-> _get_site_threshold(site),
     last_withdrawal |-> None,
     withdrawal_history |-> <<>>]

\* a threshold test that misses the exact threshold
Mut_check_withdrawal_threshold(ledger, site) ==
    IF site \notin DOMAIN ledger THEN FALSE
    ELSE ledger[site].pending_points > ledger[site].minimum_threshold

_check_withdrawal_threshold(ledger, site) ==
    IF site \notin DOMAIN ledger THEN FALSE
    ELSE ledger[site].pending_points >= ledger[site].minimum_threshold

\* the withdrawal dictionary _queue_withdrawal builds
NewWithdrawal(ledger, site, now) ==
    [id |-> <<site, now>>,
     site |-> site,
     points |-> ledger[site].pending_points,
     estimated_value |-> ledger[site].pending_points * ledger[site].conversion_rate,
     status |-> "queued",
     queued_at |-> now,
     withdrawal_type |-> _determine_withdrawal_type(site),
     processed_at |-> None,
     crypto_address |-> None,
     withdrawal_method |-> None,
     gift_card_id |-> None,
     paypal_email |-> None]

(* A state of the ledger object as the handlers thread it along:           *)
(* st.ledger, st.queue, st.hist, st.vault, st.objs.                        *)
CurrentState ==
    [ledger |-> points_ledger, queue |-> withdrawal_queue,
     hist |-> transaction_history, vault |-> gift_card_vault, objs |-> objs]

_queue_withdrawal(st, site, now) ==
    IF site \notin DOMAIN st.ledger THEN st
    ELSE LET r == Len(st.objs) + 1
         IN [st EXCEPT !.objs = Append(st.objs, NewWithdrawal(st.ledger, site, now)),
                       !.queue = Append(st.queue, r),
                       !.hist = _log_transaction(st.hist, "withdrawal_queued", Ref(r), now)]

\* track_points up to, not including, the threshold check
CreditBalances(st, site, points, conversion_rate, now) ==
    LET l0 == IF site \in DOMAIN st.ledger THEN st.ledger
              ELSE [s \in DOMAIN st.ledger \cup {site} |->
                      IF s = site THEN NewLedgerEntry(site, conversion_rate)
                      ELSE st.ledger[s]]
        l1 == [l0 EXCEPT ![site].total_points = @ + points,
                         ![site].pending_points = @ + points]
    IN [st EXCEPT !.ledger = l1,
                  !.hist = _log_transaction(st.hist, "points_earned",
                               [site |-> site, points |-> points, timestamp |-> now], now)]

track_points(st, site, points, conversion_rate, now) ==
    LET s1 == CreditBalances(st, site, points, conversion_rate, now)
    IN IF _check_withdrawal_threshold(s1.ledger, site)
       THEN _queue_withdrawal(s1, site, now)
       ELSE s1


(* ---------------- the gift card vault ---------------- *)
(* json.dumps writes one token per key, in key order; a token that is not  *)
(* well-formed JSON text has ok = FALSE. base64 recodes the text symbol by *)
(* symbol and takes no key; a symbol outside its alphabet is not "b64".    *)
GiftCardKeys ==
    <<"brand", "code", "pin", "value", "source_site", "stored_at", "status", "used">>

\* a json.dumps that writes null for the pin
Mut_json_dumps(d) ==
    [i \in DOMAIN GiftCardKeys |->
        [key |-> GiftCardKeys[i], ok |-> TRUE,
         val |-> IF GiftCardKeys[i] = "pin" THEN None ELSE d[GiftCardKeys[i]]]]

json_dumps(d) ==
    [i \in DOMAIN GiftCardKeys |->
        [key |-> GiftCardKeys[i], ok |-> TRUE, val |-> d[GiftCardKeys[i]]]]

\* json.loads: Some(dictionary), or None where it raises
json_loads(t) ==
    IF \E i \in DOMAIN t : ~t[i].ok
    THEN None
    ELSE Some([k \in {t[i].key : i \in DOMAIN t} |->
                 t[CHOOSE i \in DOMAIN t : t[i].key = k].val])

b64encode(s) == [i \in DOMAIN s |-> <<"b64", s[i]>>]

\* base64.b64decode: Some(text), or None where it raises
b64decode(s) ==
    IF \E i \in DOMAIN s : s[i][1] # "b64"
    THEN None
    ELSE Some([i \in DOMAIN s |-> s[i][2]])

store_gift_card(st, brand, code, pin, value, source_site, now) ==
    LET gift_card_id == <<brand, code, now>>
        gift_card_data == [brand |-> brand, code |-> code, pin |-> pin,
                           value |-> value, source_site |-> source_site,
                           stored_at |-> now, status |-> "active", used |-> FALSE]
        entry == [encrypted_data |-> b64encode(json_dumps(gift_card_data)),
                  brand |-> brand, value |-> value, stored_at |-> now,
                  status |-> "active"]
    IN [id |-> gift_card_id,
        st |-> [st EXCEPT
                  !.vault = [k \in DOMAIN st.vault \cup {gift_card_id} |->
                                IF k = gift_card_id THEN entry ELSE st.vault[k]],
                  !.hist = _log_transaction(st.hist, "gift_card_stored",
                              [gift_card_id |-> gift_card_id, brand |-> brand,
                               value |-> value, source_site |-> source_site], now)]]

\* Some(gift card dictionary), or None
get_gift_card(vault, gift_card_id) ==
    IF gift_card_id \notin DOMAIN vault
    THEN None
    ELSE LET encrypted_data == vault[gift_card_id].encrypted_data
             decrypted_data == b64decode(encrypted_data)
         IN IF decrypted_data = None
            THEN None
            ELSE json_loads(decrypted_data[1])

(* ---------------- the withdrawal executors ---------------- *)
(* Each returns [ok, st]: the executor's result and the state it leaves.   *)
(* driver is TRUE when a driver object is passed, FALSE for driver=None.   *)
\* a crypto executor that goes ahead without a driver
Mut_process_crypto_withdrawal(st, r, driver, now) ==
    LET site == st.objs[r].site
        crypto_address == IF site = "cointiply.com"
                          THEN get_crypto_address("bitcoin", None)
                          ELSE get_crypto_address("usdt", "ethereum")
        o1 == [st.objs EXCEPT ![r].crypto_address = crypto_address,
                              ![r].withdrawal_method = Some("crypto")]
    IN [ok |-> TRUE,
        st |-> [st EXCEPT !.objs = o1,
                  !.hist = _log_transaction(st.hist,
                              "crypto_withdrawal_processed", Ref(r), now)]]

_process_crypto_withdrawal(st, r, driver, now) ==
    IF ~driver THEN [ok |-> FALSE, st |-> st]
    ELSE LET site == st.objs[r].site
             crypto_address == IF site = "cointiply.com"
                               THEN get_crypto_address("bitcoin", None)
                               ELSE get_crypto_address("usdt", "ethereum")
             o1 == [st.objs EXCEPT ![r].crypto_address = crypto_address,
                                   ![r].withdrawal_method = Some("crypto")]
         IN [ok |-> TRUE,
             st |-> [st EXCEPT !.objs = o1,
                       !.hist = _log_transaction(st.hist,
                                   "crypto_withdrawal_processed", Ref(r), now)]]

_process_gift_card_withdrawal(st, r, driver, now) ==
    IF ~driver THEN [ok |-> FALSE, st |-> st]
    ELSE LET stored == store_gift_card(st, "Amazon", <<"MOCK", now>>, None,
                                       st.objs[r].estimated_value, st.objs[r].site, now)
             s1 == stored.st
             o1 == [s1.objs EXCEPT ![r].gift_card_id = Some(stored.id),
                                   ![r].withdrawal_method = Some("gift_card")]
         IN [ok |-> TRUE,
             st |-> [s1 EXCEPT !.objs = o1,
                       !.hist = _log_transaction(s1.hist,
                                   "gift_card_withdrawal_processed", Ref(r), now)]]

\* an executor without the early return for a missing driver
Mut_process_paypal_withdrawal(st, r, driver, now) ==
    LET o1 == [st.objs EXCEPT ![r].paypal_email = Some("floraanderson606@gmail.com"),
                              ![r].withdrawal_method = Some("paypal")]
    IN [ok |-> TRUE,
        st |-> [st EXCEPT !.objs = o1,
                  !.hist = _log_transaction(st.hist,
                              "paypal_withdrawal_processed", Ref(r), now)]]

_process_paypal_withdrawal(st, r, driver, now) ==
    IF ~driver THEN [ok |-> FALSE, st |-> st]
    ELSE LET o1 == [st.objs EXCEPT ![r].paypal_email = Some("floraanderson606@gmail.com"),
                                   ![r].withdrawal_method = Some("paypal")]
         IN [ok |-> TRUE,
             st |-> [st EXCEPT !.objs = o1,
                       !.hist = _log_transaction(st.hist,
                                   "paypal_withdrawal_processed", Ref(r), now)]]

Execute(st, r, driver, now) ==
    IF st.objs[r].withdrawal_type = "crypto" THEN _process_crypto_withdrawal(st, r, driver, now)
    ELSE IF st.objs[r].withdrawal_type = "gift_card" THEN _process_gift_card_withdrawal(st, r, driver, now)
    ELSE _process_paypal_withdrawal(st, r, driver, now)

(* ---------------- the drain ---------------- *)
\* the ledger update of a withdrawal whose executor succeeded
CompleteInLedger(ledger, r, w, now) ==
    IF w.site \in DOMAIN ledger
    THEN [ledger EXCEPT ![w.site].pending_points = 0,
                        ![w.site].withdrawn_points = @ + w.points,
                        ![w.site].last_withdrawal = Some(now),
                        ![w.site].withdrawal_history = Append(@, r)]
    ELSE ledger

(* One iteration of the loop of process_withdrawal_queue, on the           *)
(* withdrawal r; st carries the list `processed` as well.                  *)
ProcessOne(st, r, driver, now) ==
    IF st.objs[r].status # "queued" THEN st
    ELSE LET res == Execute(st, r, driver, now)
             s1 == res.st
         IN IF ~res.ok THEN s1
            ELSE LET o1 == [s1.objs EXCEPT ![r].status = "processed",
                                           ![r].processed_at = Some(now)]
                 IN [s1 EXCEPT !.objs = o1,
                               !.processed = Append(@, r),
                               !.ledger = CompleteInLedger(s1.ledger, r, o1[r], now)]

RECURSIVE ProcessFrom(_, _, _, _, _)
\* the loop over the snapshot q of the queue, from position i on
ProcessFrom(st, q, i, driver, now) ==
    IF i > Len(q) THEN st
    ELSE ProcessFrom(ProcessOne(st, q[i], driver, now), q, i + 1, driver, now)

\* the state a handler works on, with an empty `processed` list
WithProcessed(st) ==
    [ledger |-> st.ledger, queue |-> st.queue, hist |-> st.hist,
     vault |-> st.vault, objs |-> st.objs, processed |-> << >>]

\* a drain that leaves the processed withdrawals in the queue
Mut_process_withdrawal_queue(st, driver, now) ==
    ProcessFrom(WithProcessed(st), st.queue, 1, driver, now)

process_withdrawal_queue(st, driver, now) ==
    LET s1 == ProcessFrom(WithProcessed(st), st.queue, 1, driver, now)
    IN [s1 EXCEPT !.queue = SelectSeq(s1.queue, LAMBDA r : s1.objs[r].status # "processed")]

Init ==
    /\ points_ledger = << >>
    /\ withdrawal_queue = << >>
    /\ transaction_history = << >>
    /\ gift_card_vault = << >>
    /\ objs = << >>
    /\ clock = 0
    /\ ret = [op |-> "init"]
    /\ thr = << >>
    /\ encryption_key = DefaultKey
    /\ gift_cards = << >>
    /\ files = NoFiles

\* the number of track_points calls made so far is the number of points_earned records
Credits == Cardinality({i \in 1..Len(transaction_history) :
                            transaction_history[i].type = "points_earned"})

Install(st) ==
    /\ points_ledger' = st.ledger
    /\ withdrawal_queue' = st.queue
    /\ transaction_history' = st.hist
    /\ gift_card_vault' = st.vault
    /\ objs' = st.objs

\* the clock readings a call can take: the last reading or a later one
Readings == {t \in {clock, clock + 1} : t <= MaxClock}

TrackPoints(site, points, rate, now) ==
    /\ Credits < MaxCredits
    /\ LET st == track_points(CurrentState, site, points, rate, now)
       IN /\ Install(st)
          /\ ret' = [op |-> "track_points",
                     value |-> points * st.ledger[site].conversion_rate]
    /\ clock' = now
    /\ UNCHANGED <<thr, encryption_key, gift_cards, files>>

ProcessWithdrawalQueue(driver, now) ==
    /\ LET st == process_withdrawal_queue(CurrentState, driver, now)
       IN /\ Install(st)
          /\ ret' = [op |-> "process_withdrawal_queue", processed |-> st.processed]
    /\ clock' = now
    /\ UNCHANGED <<thr, encryption_key, gift_cards, files>>

Next ==
    \/ \E driver \in BOOLEAN : \E now \in Readings : ProcessWithdrawalQueue(driver, now)
    \/ \E site \in Sites : \E points \in PointsFor(site) : \E rate \in Rates :
          \E now \in Readings : TrackPoints(site, points, rate, now)

Spec == Init /\ [][Next]_vars

(* ---------------- concurrent track_points calls ---------------- *)
(* No lock protects the ledger: a thread can be preempted between the      *)
(* statements of track_points and between the read and the write of an     *)
(* augmented assignment. thr[t] is thread t's position and its locals.     *)
ConcSite == "current_site"
Threads == 1..NThreads

EmptyState ==
    [ledger |-> << >>, queue |-> << >>, hist |-> << >>, vault |-> << >>, objs |-> << >>]

InitConc ==
    /\ \E k \in Threads :
          LET st == track_points(EmptyState, ConcSite,
                                 _get_site_threshold(ConcSite) - k, Some(1), 0)
          IN /\ points_ledger = st.ledger
             /\ withdrawal_queue = st.queue
             /\ transaction_history = st.hist
             /\ gift_card_vault = st.vault
             /\ objs = st.objs
    /\ clock = 0
    /\ ret = [op |-> "init"]
    /\ thr = [t \in Threads |-> [pc |-> "call", site |-> ConcSite, points |-> 1,
                                 rate |-> Some(1), reg |-> 0, value |-> None]]
    /\ encryption_key = DefaultKey
    /\ gift_cards = << >>
    /\ files = NoFiles

Step(t, from, to) ==
    /\ thr[t].pc = from
    /\ thr' = [thr EXCEPT ![t].pc = to]

\* lines 81-90: create the entry when the site is unseen
T_Begin(t) ==
    /\ Step(t, "call", "load_total")
    /\ points_ledger' =
          IF thr[t].site \in DOMAIN points_ledger THEN points_ledger
          ELSE [s \in DOMAIN points_ledger \cup {thr[t].site} |->
                  IF s = thr[t].site THEN NewLedgerEntry(thr[t].site, thr[t].rate)
                  ELSE points_ledger[s]]
    /\ UNCHANGED <<withdrawal_queue, transaction_history, gift_card_vault, objs, clock, ret, encryption_key, gift_cards, files>>

\* line 92, the read of total_points
T_LoadTotal(t) ==
    /\ thr[t].pc = "load_total"
    /\ thr' = [thr EXCEPT ![t].pc = "store_total",
                          ![t].reg = points_ledger[thr[t].site].total_points]
    /\ UNCHANGED <<points_ledger, withdrawal_queue, transaction_history,
                   gift_card_vault, objs, clock, ret, encryption_key, gift_cards, files>>

\* line 92, the write of total_points
T_StoreTotal(t) ==
    /\ Step(t, "store_total", "load_pending")
    /\ points_ledger' = [points_ledger EXCEPT
                           ![thr[t].site].total_points = thr[t].reg + thr[t].points]
    /\ UNCHANGED <<withdrawal_queue, transaction_history, gift_card_vault, objs, clock, ret, encryption_key, gift_cards, files>>

\* line 93, the read of pending_points
T_LoadPending(t) ==
    /\ thr[t].pc = "load_pending"
    /\ thr' = [thr EXCEPT ![t].pc = "store_pending",
                          ![t].reg = points_ledger[thr[t].site].pending_points]
    /\ UNCHANGED <<points_ledger, withdrawal_queue, transaction_history,
                   gift_card_vault, objs, clock, ret, encryption_key, gift_cards, files>>

\* line 93, the write of pending_points
T_StorePending(t) ==
    /\ Step(t, "store_pending", "log")
    /\ points_ledger' = [points_ledger EXCEPT
                           ![thr[t].site].pending_points = thr[t].reg + thr[t].points]
    /\ UNCHANGED <<withdrawal_queue, transaction_history, gift_card_vault, objs, clock, ret, encryption_key, gift_cards, files>>

\* lines 96-100
T_Log(t) ==
    /\ Step(t, "log", "check")
    /\ transaction_history' =
          _log_transaction(transaction_history, "points_earned",
              [site |-> thr[t].site, points |-> thr[t].points, timestamp |-> clock], clock)
    /\ UNCHANGED <<points_ledger, withdrawal_queue, gift_card_vault, objs, clock, ret, encryption_key, gift_cards, files>>

\* line 103
T_Check(t) ==
    /\ thr[t].pc = "check"
    /\ thr' = [thr EXCEPT ![t].pc =
                  IF _check_withdrawal_threshold(points_ledger, thr[t].site)
                  THEN "queue" ELSE "return"]
    /\ UNCHANGED <<points_ledger, withdrawal_queue, transaction_history,
                   gift_card_vault, objs, clock, ret, encryption_key, gift_cards, files>>

\* line 104
T_Queue(t) ==
    /\ Step(t, "queue", "return")
    /\ Install(_queue_withdrawal(CurrentState, thr[t].site, clock))
    /\ UNCHANGED <<clock, ret, encryption_key, gift_cards, files>>

\* line 106
T_Return(t) ==
    /\ thr[t].pc = "return"
    /\ thr' = [thr EXCEPT ![t].pc = "done",
                  ![t].value = Some(thr[t].points * points_ledger[thr[t].site].conversion_rate)]
    /\ UNCHANGED <<points_ledger, withdrawal_queue, transaction_history,
                   gift_card_vault, objs, clock, ret, encryption_key, gift_cards, files>>

NextConc ==
    \E t \in Threads :
       \/ T_Begin(t)
       \/ T_LoadTotal(t)
       \/ T_StoreTotal(t)
       \/ T_LoadPending(t)
       \/ T_StorePending(t)
       \/ T_Log(t)
       \/ T_Check(t)
       \/ T_Queue(t)
       \/ T_Return(t)

SpecConc == InitConc /\ [][NextConc]_vars
(* ---------------- the drain, statement by statement ---------------- *)
(* process_withdrawal_queue as the steps of its loop, so that the states   *)
(* between the executor call and the update of the withdrawal are seen,    *)
(* and credits can come in between. thr is the position of the drain and   *)
(* its locals: the snapshot q of the queue, the index i, the list          *)
(* processed, the driver and the executor's result.                        *)
InitDrain ==
    /\ points_ledger = << >>
    /\ withdrawal_queue = << >>
    /\ transaction_history = << >>
    /\ gift_card_vault = << >>
    /\ objs = << >>
    /\ clock = 0
    /\ ret = [op |-> "init"]
    /\ thr = [pc |-> "idle", q |-> << >>, i |-> 0, driver |-> FALSE,
              processed |-> << >>, result |-> FALSE, kept |-> << >>]
    /\ encryption_key = DefaultKey
    /\ gift_cards = << >>
    /\ files = NoFiles

\* lines 242-247: the call, the empty list and the snapshot of the queue
D_Call(driver, now) ==
    /\ thr.pc = "idle"
    /\ thr' = [pc |-> "loop", q |-> withdrawal_queue, i |-> 1, driver |-> driver,
               processed |-> << >>, result |-> FALSE, kept |-> << >>]
    /\ clock' = now
    /\ UNCHANGED <<points_ledger, withdrawal_queue, transaction_history,
                   gift_card_vault, objs, ret, encryption_key, gift_cards, files>>

\* lines 248-255: skip a withdrawal that is not queued, else call its executor
D_Execute(now) ==
    /\ thr.pc = "loop"
    /\ thr.i <= Len(thr.q)
    /\ IF objs[thr.q[thr.i]].status # "queued"
       THEN /\ thr' = [thr EXCEPT !.i = @ + 1]
            /\ UNCHANGED <<points_ledger, withdrawal_queue, transaction_history,
                           gift_card_vault, objs>>
       ELSE LET res == Execute(CurrentState, thr.q[thr.i], thr.driver, now)
            IN /\ Install(res.st)
               /\ thr' = [thr EXCEPT !.pc = "result", !.result = res.ok]
    /\ clock' = now
    /\ UNCHANGED <<ret, encryption_key, gift_cards, files>>

\* lines 257-268: on success mark the withdrawal processed and update the ledger
D_Complete(now) ==
    /\ thr.pc = "result"
    /\ LET r == thr.q[thr.i]
           o1 == [objs EXCEPT ![r].status = "processed", ![r].processed_at = Some(now)]
       IN IF thr.result
          THEN /\ objs' = o1
               /\ points_ledger' = CompleteInLedger(points_ledger, r, o1[r], now)
               /\ thr' = [thr EXCEPT !.pc = "loop", !.i = @ + 1,
                                     !.processed = Append(@, r)]
          ELSE /\ thr' = [thr EXCEPT !.pc = "loop", !.i = @ + 1]
               /\ UNCHANGED <<objs, points_ledger>>
    /\ clock' = now
    /\ UNCHANGED <<withdrawal_queue, transaction_history, gift_card_vault, ret,
                   encryption_key, gift_cards, files>>

\* line 271, right-hand side: a new list of the withdrawals not processed
D_Filter ==
    /\ thr.pc = "loop"
    /\ thr.i > Len(thr.q)
    /\ thr' = [thr EXCEPT !.pc = "assign",
                          !.kept = SelectSeq(withdrawal_queue,
                                             LAMBDA r : objs[r].status # "processed")]
    /\ UNCHANGED <<points_ledger, withdrawal_queue, transaction_history,
                   gift_card_vault, objs, clock, ret, encryption_key, gift_cards, files>>

\* lines 271-273: the assignment to self.withdrawal_queue, and the return
D_Assign ==
    /\ thr.pc = "assign"
    /\ withdrawal_queue' = thr.kept
    /\ ret' = [op |-> "process_withdrawal_queue", processed |-> thr.processed]
    /\ thr' = [thr EXCEPT !.pc = "idle", !.kept = << >>]
    /\ UNCHANGED <<points_ledger, transaction_history, gift_card_vault, objs, clock,
                   encryption_key, gift_cards, files>>

\* a credit of the site's threshold, between any two steps of the drain
D_Credit(site, now) ==
    TrackPoints(site, _get_site_threshold(site), Some(1), now)

NextDrain ==
    \/ \E driver \in BOOLEAN : \E now \in Readings : D_Call(driver, now)
    \/ \E now \in Readings : D_Execute(now)
    \/ \E now \in Readings : D_Complete(now)
    \/ D_Filter
    \/ D_Assign
    \/ \E site \in Sites : \E now \in Readings : D_Credit(site, now)

SpecDrain == InitDrain /\ [][NextDrain]_vars

(* The drain keeps being run: a step of a drain pass is taken whenever one *)
(* stays possible (a pass can always be started, and every executor call   *)
(* returns). Whether a driver is passed is left to the caller.             *)
DrainStep ==
    \/ \E driver \in BOOLEAN : \E now \in Readings : D_Call(driver, now)
    \/ \E now \in Readings : D_Execute(now)
    \/ \E now \in Readings : D_Complete(now)
    \/ D_Filter
    \/ D_Assign

SpecDrainLive == SpecDrain /\ WF_vars(DrainStep)

(* ---------------- the transaction history up to its cap ---------------- *)
(* _log_transaction applied over and over, each time at a later clock      *)
(* reading, until the history has passed HistoryCap. It starts from the    *)
(* empty history, or from the history n appends have built.                *)
LogRecord(n) ==
    [id |-> <<"points_earned", n>>, type |-> "points_earned", timestamp |-> n,
     data |-> [site |-> "current_site", points |-> 1, timestamp |-> n]]

InitLog ==
    /\ points_ledger = << >>
    /\ withdrawal_queue = << >>
    /\ \E n \in {0, HistoryCap - 2} :
          /\ transaction_history = [i \in 1..n |-> LogRecord(i)]
          /\ clock = n
    /\ gift_card_vault = << >>
    /\ objs = << >>
    /\ ret = [op |-> "init"]
    /\ thr = << >>
    /\ encryption_key = DefaultKey
    /\ gift_cards = << >>
    /\ files = NoFiles

LogAppend ==
    /\ clock < MaxAppends
    /\ clock' = clock + 1
    /\ transaction_history' =
          _log_transaction(transaction_history, "points_earned",
                           LogRecord(clock + 1).data, clock + 1)
    /\ UNCHANGED <<points_ledger, withdrawal_queue, gift_card_vault, objs, ret, thr,
                   encryption_key, gift_cards, files>>

NextLog == LogAppend

SpecLog == InitLog /\ [][NextLog]_vars

(* ---------------- concurrent _log_transaction calls ---------------- *)
(* Each thread makes one call, on a history that is two short of the cap,  *)
(* one short of it, or at it. A thread can be preempted after its append,  *)
(* after the length test, and between taking the slice and storing it.     *)
ThreadRecord(t) ==
    [id |-> <<"points_earned", clock>>, type |-> "points_earned", timestamp |-> clock,
     data |-> [site |-> "current_site", points |-> t, timestamp |-> clock]]

InitLogConc ==
    /\ points_ledger = << >>
    /\ withdrawal_queue = << >>
    /\ \E n \in (HistoryCap - 2)..HistoryCap :
          /\ transaction_history = [i \in 1..n |-> LogRecord(i)]
          /\ clock = n
    /\ gift_card_vault = << >>
    /\ objs = << >>
    /\ ret = [op |-> "init"]
    /\ thr = [t \in Threads |-> [pc |-> "call", slice |-> << >>]]
    /\ encryption_key = DefaultKey
    /\ gift_cards = << >>
    /\ files = NoFiles

\* lines 382-389: build the transaction and append it
L_Append(t) ==
    /\ Step(t, "call", "test")
    /\ transaction_history' = Append(transaction_history, ThreadRecord(t))
    /\ UNCHANGED <<points_ledger, withdrawal_queue, gift_card_vault, objs, clock, ret,
                   encryption_key, gift_cards, files>>

\* line 392: the length test
L_Test(t) ==
    /\ thr[t].pc = "test"
    /\ thr' = [thr EXCEPT ![t].pc = IF Len(transaction_history) > HistoryCap
                                    THEN "slice" ELSE "done"]
    /\ UNCHANGED <<points_ledger, withdrawal_queue, transaction_history,
                   gift_card_vault, objs, clock, ret, encryption_key, gift_cards, files>>

\* line 393, right-hand side: a new list of the last HistoryCap transactions
L_Slice(t) ==
    /\ thr[t].pc = "slice"
    /\ thr' = [thr EXCEPT ![t].pc = "store",
                          ![t].slice = SubSeq(transaction_history,
                                              Len(transaction_history) - HistoryCap + 1,
                                              Len(transaction_history))]
    /\ UNCHANGED <<points_ledger, withdrawal_queue, transaction_history,
                   gift_card_vault, objs, clock, ret, encryption_key, gift_cards, files>>

\* line 393, the assignment to self.transaction_history
L_Store(t) ==
    /\ thr[t].pc = "store"
    /\ transaction_history' = thr[t].slice
    /\ thr' = [thr EXCEPT ![t].pc = "done", ![t].slice = << >>]
    /\ UNCHANGED <<points_ledger, withdrawal_queue, gift_card_vault, objs, clock, ret,
                   encryption_key, gift_cards, files>>

NextLogConc ==
    \/ \E t \in Threads : L_Append(t)
    \/ \E t \in Threads : L_Test(t)
    \/ \E t \in Threads : L_Slice(t)
    \/ \E t \in Threads : L_Store(t)

SpecLogConc == InitLogConc /\ [][NextLogConc]_vars

(* ---------------- credits at different rates ---------------- *)
(* track_points called with the rates 0.0001 and 0.0002, on two sites and  *)
(* with so few points that no withdrawal is queued.                        *)
RateSites == {"current_site", "prolific.co"}
PassedRates == {Some(1), Some(2)}
FewPoints == {1, 2}

NextRate ==
    \E site \in RateSites, points \in FewPoints, rate \in PassedRates, now \in Readings :
       TrackPoints(site, points, rate, now)

SpecRate == Init /\ [][NextRate]_vars

(* ---------------- the financial summary ---------------- *)
RECURSIVE sum(_, _)
\* Python's sum of f[x] for x in S
sum(f, S) ==
    IF S = {} THEN 0
    ELSE LET x == CHOOSE y \in S : TRUE IN f[x] + sum(f, S \ {x})

get_financial_summary(st) ==
    LET total_points_value ==
            sum([site \in DOMAIN st.ledger |->
                    st.ledger[site].total_points * st.ledger[site].conversion_rate],
                DOMAIN st.ledger)
        total_gift_card_value ==
            sum([id \in DOMAIN st.vault |-> st.vault[id].value],
                {id \in DOMAIN st.vault : st.vault[id].status = "active"})
        pending_withdrawals ==
            Cardinality({i \in DOMAIN st.queue : st.objs[st.queue[i]].status = "queued"})
    IN [total_points_value |-> total_points_value,
        total_gift_card_value |-> total_gift_card_value,
        total_assets |-> total_points_value + total_gift_card_value,
        pending_withdrawals |-> pending_withdrawals,
        crypto_addresses |-> Cardinality(DOMAIN crypto_addresses),
        gift_cards_stored |-> Cardinality(DOMAIN st.vault),
        sites_tracked |-> Cardinality(DOMAIN st.ledger),
        transaction_count |-> Len(st.hist)]

GetFinancialSummary ==
    /\ ret' = [op |-> "get_financial_summary",
               summary |-> get_financial_summary(CurrentState)]
    /\ UNCHANGED <<points_ledger, withdrawal_queue, transaction_history,
                   gift_card_vault, objs, clock, thr, encryption_key, gift_cards, files>>

\* credits that reach the threshold, on a gift card site and on a crypto site
SummarySites == {"swagbucks.com", "cointiply.com"}

NextSummary ==
    \/ \E site \in SummarySites, now \in Readings :
          TrackPoints(site, _get_site_threshold(site), Some(1), now)
    \/ \E driver \in BOOLEAN, now \in Readings : ProcessWithdrawalQueue(driver, now)
    \/ GetFinancialSummary

SpecSummary == Init /\ [][NextSummary]_vars

(* ---------------- the vault on its own ---------------- *)
(* store_gift_card and get_gift_card called from outside, on a Plutus      *)
(* object built with plutus_key.key absent, empty, blank or holding a key. *)
KeyFiles == {None, Some(""), Some(" "), Some(DefaultKey)}

\* str.strip on the key file's text
strip(text) == IF text \in {"", " "} THEN "" ELSE text

_get_or_create_key(file) ==
    IF file = None THEN DefaultKey ELSE strip(file[1])

Brands == {"Amazon"}
Codes == {"CODE-A", "CODE-B"}
Pins == {None, Some("1234")}
Values == {0, 25}
SourceSites == {"swagbucks.com"}
GiftCardIds == {<<b, c, t>> : b \in Brands, c \in Codes, t \in 0..MaxClock}

Stored == Cardinality({i \in 1..Len(transaction_history) :
                          transaction_history[i].type = "gift_card_stored"})

InitVault ==
    /\ points_ledger = << >>
    /\ withdrawal_queue = << >>
    /\ transaction_history = << >>
    /\ gift_card_vault = << >>
    /\ objs = << >>
    /\ clock = 0
    /\ ret = [op |-> "init"]
    /\ thr = << >>
    /\ \E file \in KeyFiles : encryption_key = _get_or_create_key(file)
    /\ gift_cards = << >>
    /\ files = NoFiles

StoreGiftCard(brand, code, pin, value, source_site, now) ==
    /\ Stored < MaxCards
    /\ LET stored == store_gift_card(CurrentState, brand, code, pin, value,
                                     source_site, now)
       IN /\ Install(stored.st)
          /\ ret' = [op |-> "store_gift_card", value |-> stored.id]
    /\ clock' = now
    /\ UNCHANGED <<thr, encryption_key, gift_cards, files>>

GetGiftCard(gift_card_id) ==
    /\ ret' = [op |-> "get_gift_card", id |-> gift_card_id,
               value |-> get_gift_card(gift_card_vault, gift_card_id)]
    /\ UNCHANGED <<points_ledger, withdrawal_queue, transaction_history,
                   gift_card_vault, objs, clock, thr, encryption_key, gift_cards, files>>

NextVault ==
    \/ \E brand \in Brands, code \in Codes, pin \in Pins, value \in Values,
          source_site \in SourceSites, now \in Readings :
          StoreGiftCard(brand, code, pin, value, source_site, now)
    \/ \E gift_card_id \in GiftCardIds : GetGiftCard(gift_card_id)

SpecVault == InitVault /\ [][NextVault]_vars

(* ---------------- saving and restarting ---------------- *)
(* save_financial_data writes two JSON files; a restart builds a new       *)
(* Plutus object, whose load_financial_data reads plutus_ledger.json only. *)
(* No withdrawal exists in this specification, so every value written is a *)
(* string, a number, null, or a list or dictionary of such, and json.load  *)
(* gives back what json.dump wrote.                                        *)
save_financial_data(st, now) ==
    [ledger |-> Some([crypto_addresses |-> crypto_addresses,
                      points_ledger |-> st.ledger,
                      withdrawal_queue |-> st.queue,
                      transaction_history |-> st.hist,
                      timestamp |-> now]),
     vault |-> Some(st.vault)]

\* the state __init__ leaves: empty collections, then the ledger file if there is one
load_financial_data(f) ==
    IF f.ledger = None
    THEN EmptyState
    ELSE [EmptyState EXCEPT !.ledger = f.ledger[1].points_ledger,
                            !.queue = f.ledger[1].withdrawal_queue,
                            !.hist = f.ledger[1].transaction_history]

SaveFinancialData(now) ==
    /\ files' = save_financial_data(CurrentState, now)
    /\ ret' = [op |-> "save_financial_data"]
    /\ clock' = now
    /\ UNCHANGED <<points_ledger, withdrawal_queue, transaction_history,
                   gift_card_vault, objs, thr, encryption_key, gift_cards>>

Restart ==
    /\ Install(load_financial_data(files))
    /\ ret' = [op |-> "init"]
    /\ UNCHANGED <<clock, thr, encryption_key, gift_cards, files>>

NextRestart ==
    \/ \E code \in Codes, pin \in Pins, now \in Readings :
          StoreGiftCard("Amazon", code, pin, 25, "swagbucks.com", now)
    \/ \E gift_card_id \in GiftCardIds : GetGiftCard(gift_card_id)
    \/ \E now \in Readings : SaveFinancialData(now)
    \/ Restart

SpecRestart == Init /\ [][NextRestart]_vars

(* ---------------- the payment monitor's gift cards ---------------- *)
(* RealPaymentMonitor keeps gift cards in the SQLite table gift_cards, one *)
(* row per card, the code encrypted with Fernet under encryption_key. The  *)
(* model starts with an empty table and keeps one key for the whole run.   *)
GeneratedKey == "Fernet.generate_key"
MonitorKeyFiles == {None, Some(""), Some("gift_card_key")}

get_or_create_encryption_key(file) ==
    IF file = None THEN GeneratedKey ELSE file[1]

\* Fernet(key) raises on a key that is not 32 url-safe base64-encoded bytes
ValidFernetKey(key) == key # ""

fernet_encrypt(key, text) == <<"fernet", key, text>>

\* Some(text), or None where it raises InvalidToken
fernet_decrypt(key, token) ==
    IF token[2] = key THEN Some(token[3]) ELSE None

Monitor_store_gift_card(table, key, card_type, card_code, amount, source_site, now) ==
    IF ~ValidFernetKey(key)
    THEN table
    ELSE Append(table, [id |-> Len(table) + 1, card_type |-> card_type,
                        encrypted_code |-> fernet_encrypt(key, card_code),
                        amount |-> amount, source_site |-> source_site,
                        redeemed |-> FALSE, timestamp |-> now])

Monitor_get_gift_card(table, key, card_id) ==
    IF card_id \notin DOMAIN table \/ ~ValidFernetKey(key)
    THEN None
    ELSE LET row == table[card_id]
             decrypted_code == fernet_decrypt(key, row.encrypted_code)
         IN IF decrypted_code = None
            THEN None
            ELSE Some([id |-> row.id, card_type |-> row.card_type,
                       card_code |-> decrypted_code[1], amount |-> row.amount,
                       source_site |-> row.source_site, redeemed |-> row.redeemed,
                       timestamp |-> row.timestamp])

\* an UPDATE that flips the flag
Mut_mark_gift_card_redeemed(table, card_id) ==
    [i \in DOMAIN table |->
        IF table[i].id = card_id
        THEN [table[i] EXCEPT !.redeemed = ~table[i].redeemed]
        ELSE table[i]]

\* UPDATE gift_cards SET redeemed = 1 WHERE id = ?
mark_gift_card_redeemed(table, card_id) ==
    [i \in DOMAIN table |->
        IF table[i].id = card_id
        THEN [table[i] EXCEPT !.redeemed = TRUE]
        ELSE table[i]]

CardIds == 1..(MaxRows + 1)
Idle == [pc |-> "idle", card_id |-> 0, card |-> None]

InitMonitor ==
    /\ points_ledger = << >>
    /\ withdrawal_queue = << >>
    /\ transaction_history = << >>
    /\ gift_card_vault = << >>
    /\ objs = << >>
    /\ clock = 0
    /\ ret = [op |-> "init"]
    /\ thr = Idle
    /\ \E file \in MonitorKeyFiles :
          encryption_key = get_or_create_encryption_key(file)
    /\ gift_cards = << >>
    /\ files = NoFiles

M_StoreGiftCard(card_type, card_code, amount, source_site, now) ==
    /\ thr.pc = "idle"
    /\ Len(gift_cards) < MaxRows
    /\ gift_cards' = Monitor_store_gift_card(gift_cards, encryption_key, card_type,
                                             card_code, amount, source_site, now)
    /\ ret' = [op |-> "store_gift_card", id |-> 0]
    /\ clock' = now
    /\ UNCHANGED <<points_ledger, withdrawal_queue, transaction_history,
                   gift_card_vault, objs, thr, encryption_key, files>>

M_GetGiftCard(card_id) ==
    /\ thr.pc = "idle"
    /\ ret' = [op |-> "get_gift_card", id |-> card_id,
               value |-> Monitor_get_gift_card(gift_cards, encryption_key, card_id)]
    /\ UNCHANGED <<points_ledger, withdrawal_queue, transaction_history,
                   gift_card_vault, objs, clock, thr, encryption_key, gift_cards, files>>

M_MarkGiftCardRedeemed(card_id) ==
    /\ thr.pc = "idle"
    /\ gift_cards' = mark_gift_card_redeemed(gift_cards, card_id)
    /\ ret' = [op |-> "mark_gift_card_redeemed", id |-> card_id]
    /\ UNCHANGED <<points_ledger, withdrawal_queue, transaction_history,
                   gift_card_vault, objs, clock, thr, encryption_key, files>>

\* redeem_to_crypto, lines 389-391: fetch the card, return False without one
R_Call(card_id) ==
    /\ thr.pc = "idle"
    /\ LET card == Monitor_get_gift_card(gift_cards, encryption_key, card_id)
       IN IF card = None
          THEN /\ ret' = [op |-> "redeem_to_crypto", id |-> card_id, ok |-> FALSE]
               /\ UNCHANGED thr
          ELSE /\ thr' = [pc |-> "mark", card_id |-> card_id, card |-> card]
               /\ UNCHANGED ret
    /\ UNCHANGED <<points_ledger, withdrawal_queue, transaction_history,
                   gift_card_vault, objs, clock, encryption_key, gift_cards, files>>

\* line 401: mark the card redeemed
R_Mark ==
    /\ thr.pc = "mark"
    /\ gift_cards' = mark_gift_card_redeemed(gift_cards, thr.card_id)
    /\ thr' = [thr EXCEPT !.pc = "return"]
    /\ UNCHANGED <<points_ledger, withdrawal_queue, transaction_history,
                   gift_card_vault, objs, clock, ret, encryption_key, files>>

\* line 402: return True
R_Return ==
    /\ thr.pc = "return"
    /\ ret' = [op |-> "redeem_to_crypto", id |-> thr.card_id, ok |-> TRUE]
    /\ thr' = Idle
    /\ UNCHANGED <<points_ledger, withdrawal_queue, transaction_history,
                   gift_card_vault, objs, clock, encryption_key, gift_cards, files>>

NextMonitor ==
    \/ \E card_code \in Codes, now \in Readings :
          M_StoreGiftCard("Amazon", card_code, 25, "swagbucks.com", now)
    \/ \E card_id \in CardIds : M_GetGiftCard(card_id)
    \/ \E card_id \in CardIds : M_MarkGiftCardRedeemed(card_id)
    \/ \E card_id \in CardIds : R_Call(card_id)
    \/ R_Mark
    \/ R_Return

SpecMonitor == InitMonitor /\ [][NextMonitor]_vars

(* ======================= the claims ======================= *)
Accounts == DOMAIN points_ledger
Clocks == 0..MaxClock

\* the withdrawals of a site in the active queue that are not in a terminal state
NonTerminal(site) ==
    {i \in 1..Len(withdrawal_queue) :
        /\ objs[withdrawal_queue[i]].site = site
        /\ objs[withdrawal_queue[i]].status \in {"queued", "processing"}}

RECURSIVE SumOver(_, _)
\* the sum of f[x] over the finite set S
SumOver(f, S) ==
    IF S = {} THEN 0
    ELSE LET x == CHOOSE y \in S : TRUE IN f[x] + SumOver(f, S \ {x})

\* the points of the completed withdrawals of a site
CompletedPoints(site) ==
    SumOver([r \in 1..Len(objs) |-> objs[r].points],
            {r \in 1..Len(objs) : objs[r].site = site /\ objs[r].status = "processed"})

\* the points credited to a site by the valid credits recorded in the history
CreditedPoints(site) ==
    LET idx == {i \in 1..Len(transaction_history) :
                   /\ transaction_history[i].type = "points_earned"
                   /\ transaction_history[i].data.site = site
                   /\ transaction_history[i].data.points > 0}
    IN SumOver([i \in 1..Len(transaction_history) |->
                   IF i \in idx THEN transaction_history[i].data.points ELSE 0], idx)

(* C1: for every account, in every reachable state,                        *)
(*     total_points = pending_points + withdrawn_points.                   *)
C1_LedgerBalanced ==
    \A s \in Accounts :
        points_ledger[s].total_points =
            points_ledger[s].pending_points + points_ledger[s].withdrawn_points

(* C2: the active queue holds at most one non-terminal withdrawal per      *)
(*     account.                                                            *)
C2_OneNonTerminalPerAccount ==
    \A s \in Sites : Cardinality(NonTerminal(s)) <= 1

(* C3: no double payout: the points of an account's completed withdrawals  *)
(*     never exceed the points credited to the account.                    *)
C3_NoDoublePayout ==
    \A s \in Accounts : CompletedPoints(s) <= CreditedPoints(s)

(* C4: a credit on an account without a non-terminal withdrawal enqueues   *)
(*     exactly one queued withdrawal for the full pending balance, valued  *)
(*     at the account's rate, when it leaves pending_points at or above    *)
(*     the threshold, and enqueues nothing when it leaves it below.        *)
C4_ThresholdEvaluation ==
    [][\A site \in Sites : \A points \in PointsFor(site) : \A rate \in Rates :
         \A now \in Clocks :
           (TrackPoints(site, points, rate, now) /\ NonTerminal(site) = {}) =>
              LET l == points_ledger'[site]
                  n == Len(withdrawal_queue)
              IN IF l.pending_points >= l.minimum_threshold
                 THEN /\ Len(withdrawal_queue') = n + 1
                      /\ SubSeq(withdrawal_queue', 1, n) = withdrawal_queue
                      /\ Len(objs') = Len(objs) + 1
                      /\ withdrawal_queue'[n + 1] = Len(objs')
                      /\ LET w == objs'[Len(objs')]
                         IN /\ w.status = "queued"
                            /\ w.site = site
                            /\ w.points = l.pending_points
                            /\ w.estimated_value = l.pending_points * l.conversion_rate
                 ELSE /\ withdrawal_queue' = withdrawal_queue
                      /\ objs' = objs]_vars

\* threshold 1000: 999 points, then 1 point, and one withdrawal of 1000 points is queued
C4_Witness ==
    /\ Len(transaction_history) = 3
    /\ transaction_history[1].type = "points_earned"
    /\ transaction_history[1].data.site = "current_site"
    /\ transaction_history[1].data.points = 999
    /\ transaction_history[2].type = "points_earned"
    /\ transaction_history[2].data.points = 1
    /\ transaction_history[3].type = "withdrawal_queued"
    /\ withdrawal_queue = <<1>>
    /\ objs[1].points = 1000
    /\ objs[1].status = "queued"

(* C5: completing a withdrawal of P points reduces the account's           *)
(*     pending_points by exactly P and raises withdrawn_points by exactly  *)
(*     P, whatever was credited since the withdrawal was queued.           *)
C5_CompletionMovesExactlyP ==
    (withdrawal_queue # << >> /\ objs[withdrawal_queue[1]].status = "queued") =>
        LET r == withdrawal_queue[1]
            w == objs[r]
            after == ProcessOne(WithProcessed(CurrentState), r, TRUE, clock).ledger
        IN /\ after[w.site].pending_points = points_ledger[w.site].pending_points - w.points
           /\ after[w.site].withdrawn_points = points_ledger[w.site].withdrawn_points + w.points

\* the balances of the ledger the claims speak of
Balances(ledger) ==
    [s \in DOMAIN ledger |->
        <<ledger[s].total_points, ledger[s].pending_points,
          ledger[s].withdrawn_points, ledger[s].last_withdrawal>>]

(* C6: a drain pass whose executors fail leaves pending_points,            *)
(*     withdrawn_points, total_points and last_withdrawal of every account *)
(*     as they were.                                                       *)
C6_FailedDrainKeepsLedger ==
    [][\A now \in Clocks :
          ProcessWithdrawalQueue(FALSE, now) =>
              Balances(points_ledger') = Balances(points_ledger)]_vars

\* a drain pass has just failed on a queue that holds queued withdrawals
C6_Witness ==
    /\ ret.op = "process_withdrawal_queue"
    /\ ret.processed = << >>
    /\ \E s \in Sites : NonTerminal(s) # {}

(* C7: a credit with points <= 0 or rate <= 0 has no side effects: no      *)
(*     account is created, no balance changes, no record is appended and   *)
(*     no withdrawal is enqueued.                                          *)
C7_InvalidCreditRejected ==
    [][\A site \in Sites : \A points \in PointsFor(site) : \A rate \in Rates :
         \A now \in Clocks :
           (TrackPoints(site, points, rate, now) /\ (points <= 0 \/ rate[1] <= 0)) =>
              UNCHANGED <<points_ledger, withdrawal_queue, transaction_history, objs>>]_vars

\* every concurrent call has returned
AllDone == \A t \in Threads : thr[t].pc = "done"

\* the balance of the account before the concurrent calls
BasePoints == transaction_history[1].data.points

(* C8: no lost credits: when the concurrent calls, one point each, have    *)
(*     all returned, total_points and pending_points have grown by their   *)
(*     number.                                                             *)
C8_NoLostCredits ==
    AllDone =>
        /\ points_ledger[ConcSite].total_points = BasePoints + NThreads
        /\ points_ledger[ConcSite].pending_points = BasePoints + NThreads

(* C9: when the concurrent calls that take the account to its threshold    *)
(*     have all returned, exactly one queued withdrawal exists for it.     *)
C9_ExactlyOneQueued ==
    AllDone => Cardinality(NonTerminal(ConcSite)) = 1

(* C10: when the executors fail, the drain moves each withdrawal it tried  *)
(*      to the state failed and appends a withdrawal_failed record for it. *)
C10_FailureRecorded ==
    [][\A now \in Clocks :
          ProcessWithdrawalQueue(FALSE, now) =>
             \A i \in 1..Len(withdrawal_queue) :
                objs[withdrawal_queue[i]].status = "queued" =>
                   /\ objs'[withdrawal_queue[i]].status = "failed"
                   /\ \E j \in 1..Len(transaction_history') :
                         /\ transaction_history'[j].type = "withdrawal_failed"
                         /\ transaction_history'[j].data = Ref(withdrawal_queue[i])]_vars
(* C11: a withdrawal whose executor has failed is not tried again by a     *)
(*      later drain pass when no credit and no re-enqueue came in between. *)
C11_NoAutomaticRetry ==
    [][\A driver \in BOOLEAN : \A now \in Clocks :
          (/\ ret.op = "process_withdrawal_queue"
           /\ ret.processed = << >>
           /\ ProcessWithdrawalQueue(driver, now)) =>
             \A i \in 1..Len(withdrawal_queue) :
                objs[withdrawal_queue[i]].status = "queued" =>
                   objs'[withdrawal_queue[i]] = objs[withdrawal_queue[i]]]_vars

\* the states a withdrawal never leaves
Terminal == {"processed", "failed"}

\* the number of times the withdrawal r stands in the sequence h
Occurrences(h, r) == Cardinality({i \in 1..Len(h) : h[i] = r})

(* C13: no withdrawal in a terminal state stands in the active queue, and  *)
(*      each one stands exactly once in its account's withdrawal history.  *)
C13_TerminalOnlyInHistory ==
    \A r \in 1..Len(objs) :
        objs[r].status \in Terminal =>
            /\ Occurrences(withdrawal_queue, r) = 0
            /\ objs[r].site \in Accounts
            /\ \A s \in Accounts :
                  Occurrences(points_ledger[s].withdrawal_history, r) =
                      IF s = objs[r].site THEN 1 ELSE 0

\* a drain pass has just completed a withdrawal
C13_Witness ==
    /\ ret.op = "process_withdrawal_queue"
    /\ ret.processed # << >>
    /\ \E r \in 1..Len(objs) : objs[r].status = "processed"

\* what a reader finds as the payload of a transaction: the withdrawal
\* dictionary as it is now, when the transaction holds the dictionary itself
PayloadOf(rec, heap) ==
    IF "ref" \in DOMAIN rec.data THEN heap[rec.data.ref] ELSE rec.data

(* C19: a transaction, once appended, reads the same after every later     *)
(*      operation: its type, its timestamp and its payload.                *)
C19_RecordsNeverMutated ==
    [][\A i \in 1..Len(transaction_history) :
          /\ i <= Len(transaction_history')
          /\ transaction_history'[i].type = transaction_history[i].type
          /\ transaction_history'[i].timestamp = transaction_history[i].timestamp
          /\ PayloadOf(transaction_history'[i], objs') =
                PayloadOf(transaction_history[i], objs)]_vars

AllowedTransitions ==
    {<<"queued", "processing">>, <<"processing", "processed">>, <<"processing", "failed">>}

(* C12: a withdrawal's state changes only from queued to processing and    *)
(*      from processing to completed or failed, and it is processing when  *)
(*      its executor has been invoked and its result is not yet applied.   *)
C12_StateMachine ==
    [][/\ \A r \in 1..Len(objs) :
             objs'[r].status # objs[r].status =>
                 <<objs[r].status, objs'[r].status>> \in AllowedTransitions
       /\ thr'.pc = "result" => objs'[thr'.q[thr'.i]].status = "processing"]_vars
(* C18: after n appends the history holds the most recent min(n, cap)      *)
(*      transactions in the order of their appends. In SpecLog the n-th    *)
(*      append is stamped n and clock counts the appends.                  *)
C18_MostRecentKept ==
    LET n == clock
        len == Len(transaction_history)
    IN /\ len = IF n < HistoryCap THEN n ELSE HistoryCap
       /\ \A i \in 1..len : transaction_history[i].timestamp = n - len + i

\* more transactions have been appended than the cap holds
C18_Witness ==
    /\ clock > HistoryCap
    /\ Len(transaction_history) = HistoryCap
    /\ transaction_history[1].timestamp = clock - HistoryCap + 1
(* ---------------- the vault ---------------- *)
\* C14: store_gift_card followed by get_gift_card of the returned id yields
\* the brand, code, PIN, value and source that were stored: a store makes
\* its id retrieve the stored payload, and neither a store under another id
\* nor a retrieval changes what any id retrieves.
C14_VaultRoundTrip ==
    [][/\ \A brand \in Brands, code \in Codes, pin \in Pins, value \in Values,
             source_site \in SourceSites, now \in Readings :
             StoreGiftCard(brand, code, pin, value, source_site, now) =>
                LET got == get_gift_card(gift_card_vault', ret'.value)
                IN /\ got # None
                   /\ got[1].brand = brand
                   /\ got[1].code = code
                   /\ got[1].pin = pin
                   /\ got[1].value = value
                   /\ got[1].source_site = source_site
                   /\ \A k \in DOMAIN gift_card_vault \ {ret'.value} :
                         get_gift_card(gift_card_vault', k) =
                            get_gift_card(gift_card_vault, k)
       /\ \A k \in GiftCardIds :
             GetGiftCard(k) =>
                /\ ret'.value = get_gift_card(gift_card_vault, k)
                /\ gift_card_vault' = gift_card_vault]_vars

\* a PIN-bearing card retrieved while the vault holds another card too
C14_Witness ==
    /\ ret.op = "get_gift_card"
    /\ ret.value # None
    /\ ret.value[1].pin # None
    /\ Cardinality(DOMAIN gift_card_vault) = 2

(* The alterations of one position of an entry's encrypted_data: a symbol   *)
(* outside the base64 alphabet, text that is no longer JSON, and text that  *)
(* is JSON with another code or another value.                              *)
AlterEntry(vault, id, i, symbol) ==
    [vault EXCEPT ![id].encrypted_data[i] = symbol]

OtherVals(token) ==
    IF token.key = "code" THEN Codes \ {token.val}
    ELSE IF token.key = "value" THEN Values \ {token.val}
    ELSE {}

RetrievesNothing(vault, id, i, symbol) ==
    /\ get_gift_card(AlterEntry(vault, id, i, symbol), id) = None
    /\ id \in DOMAIN AlterEntry(vault, id, i, symbol)

\* C15: with one position of an entry's stored ciphertext altered,
\* get_gift_card of that entry returns None (the decrypt failure), never a
\* payload, and the entry stays in the vault.
C15_AlteredCiphertextFails ==
    \A id \in DOMAIN gift_card_vault :
       \A i \in DOMAIN gift_card_vault[id].encrypted_data :
          LET token == gift_card_vault[id].encrypted_data[i][2]
          IN /\ RetrievesNothing(gift_card_vault, id, i, <<"?", token>>)
             /\ RetrievesNothing(gift_card_vault, id, i,
                                 <<"b64", [token EXCEPT !.ok = FALSE]>>)
             /\ \A v \in OtherVals(token) :
                   RetrievesNothing(gift_card_vault, id, i,
                                    <<"b64", [token EXCEPT !.val = v]>>)

\* what a reader without the key gets from an entry
KeylessRead(entry) ==
    LET text == b64decode(entry.encrypted_data)
    IN IF text = None THEN None ELSE json_loads(text[1])

\* C16: with no key configured nothing is stored and nothing is returned,
\* and no entry of the vault can be read without the key.
C16_FailsClosed ==
    /\ encryption_key = "" =>
          /\ gift_card_vault = << >>
          /\ ret.op \in {"store_gift_card", "get_gift_card"} => ret.value = None
    /\ \A id \in DOMAIN gift_card_vault :
          KeylessRead(gift_card_vault[id]) = None


(* ---------------- the payment monitor's gift cards ---------------- *)
\* C17: marking an existing gift card redeemed leaves it redeemed and
\* changes nothing else, and changes nothing at all when the card is
\* already redeemed; redeem_to_crypto of an existing card goes on to mark it
\* and returns True; no step removes a redeemed card or makes it unredeemed.
C17_MarkRedeemedIdempotent ==
    [][/\ \A card_id \in DOMAIN gift_cards :
             (M_MarkGiftCardRedeemed(card_id) \/ (R_Mark /\ thr.card_id = card_id)) =>
                /\ gift_cards' = [gift_cards EXCEPT ![card_id].redeemed = TRUE]
                /\ gift_cards[card_id].redeemed => gift_cards' = gift_cards
       /\ \A card_id \in DOMAIN gift_cards : R_Call(card_id) => thr'.pc = "mark"
       /\ R_Return => ret'.ok
       /\ \A i \in DOMAIN gift_cards :
             gift_cards[i].redeemed =>
                i \in DOMAIN gift_cards' /\ gift_cards'[i].redeemed]_vars

\* redeem_to_crypto has just marked a card that it fetched as redeemed
C17_Witness ==
    /\ thr.pc = "return"
    /\ thr.card[1].redeemed
    /\ gift_cards[thr.card_id].redeemed

(* ---------------- concurrent appends to the history ---------------- *)
\* C21: when every concurrent _log_transaction call has returned, the
\* record of each call is in the history (the calls are fewer than the cap,
\* so none of their records is among the oldest ones a trim may drop).
C21_NoAppendLost ==
    (\A t \in Threads : thr[t].pc = "done") =>
       \A t \in Threads :
          \E i \in DOMAIN transaction_history : transaction_history[i] = ThreadRecord(t)

(* ---------------- the rate of a credit ---------------- *)
\* C22: track_points returns points times the rate passed in the call, for
\* a new and for an existing account, and leaves the account's
\* conversion_rate equal to the rate passed.
C22_PassedRateApplies ==
    [][\A site \in RateSites, points \in FewPoints, rate \in PassedRates,
          now \in Readings :
          TrackPoints(site, points, rate, now) =>
             /\ ret'.value = points * rate[1]
             /\ points_ledger'[site].conversion_rate = rate[1]]_vars

(* ---------------- the effects of a credit ---------------- *)
\* the transactions a step has appended to the history
Appended == SubSeq(transaction_history', Len(transaction_history) + 1,
                   Len(transaction_history'))

\* the balances of a site before a step, zero for a site not yet seen
BalancesBefore(site) ==
    IF site \in DOMAIN points_ledger
    THEN [total |-> points_ledger[site].total_points,
          pending |-> points_ledger[site].pending_points,
          withdrawn |-> points_ledger[site].withdrawn_points,
          rate |-> points_ledger[site].conversion_rate]
    ELSE [total |-> 0, pending |-> 0, withdrawn |-> 0, rate |-> 0]

\* the balances part of C23: the account exists afterwards, created at the
\* rate passed if it was unseen, its total and pending points are up by
\* points, its withdrawn points and every other account are as before
CreditFrame(site, points, rate) ==
    LET before == BalancesBefore(site)
        l == points_ledger'[site]
    IN /\ DOMAIN points_ledger' = DOMAIN points_ledger \cup {site}
       /\ l.total_points = before.total + points
       /\ l.pending_points = before.pending + points
       /\ l.withdrawn_points = before.withdrawn
       /\ l.conversion_rate = IF site \in DOMAIN points_ledger THEN before.rate
                              ELSE rate[1]
       /\ \A other \in DOMAIN points_ledger \ {site} :
             points_ledger'[other] = points_ledger[other]

\* C23: a credit with points > 0 and rate > 0 has the balance effects of
\* CreditFrame and appends exactly one points_earned transaction, which
\* carries the site, the points and the rate.
C23_CreditEffects ==
    [][\A site \in Sites : \A points \in PointsFor(site) : \A rate \in Rates :
         \A now \in Clocks :
           (TrackPoints(site, points, rate, now) /\ points > 0 /\ rate[1] > 0) =>
              /\ CreditFrame(site, points, rate)
              /\ Cardinality({i \in DOMAIN Appended :
                                 Appended[i].type = "points_earned"}) = 1
              /\ Appended[1].type = "points_earned"
              /\ Appended[1].data.site = site
              /\ Appended[1].data.points = points
              /\ "rate" \in DOMAIN Appended[1].data
              /\ Appended[1].data.rate = rate[1]]_vars

(* ---------------- the financial summary ---------------- *)
\* C24: the total assets get_financial_summary reports are the sum of
\* pending_points x conversion_rate over all accounts plus the sum of the
\* values of the active vault entries.
C24_TotalAssets ==
    ret.op = "get_financial_summary" =>
       ret.summary.total_assets =
          SumOver([site \in Accounts |-> points_ledger[site].pending_points
                                           * points_ledger[site].conversion_rate],
                  Accounts)
          + SumOver([id \in DOMAIN gift_card_vault |-> gift_card_vault[id].value],
                    {id \in DOMAIN gift_card_vault :
                        gift_card_vault[id].status = "active"})

(* ---------------- withdrawal ids ---------------- *)
\* C25: no two withdrawals ever created, in the queue or in a withdrawal
\* history, have the same id.
C25_UniqueWithdrawalIds ==
    \A r1, r2 \in DOMAIN objs : r1 # r2 => objs[r1].id # objs[r2].id

(* ---------------- the lifetime of vault entries ---------------- *)
\* C26: store_gift_card returns an id that no existing entry has, and every
\* step (a store, a retrieval, a save, a restart) leaves every entry of the
\* vault in place with its stored payload.
C26_EntriesNeverDeleted ==
    [][/\ \A id \in DOMAIN gift_card_vault :
             /\ id \in DOMAIN gift_card_vault'
             /\ gift_card_vault'[id].encrypted_data = gift_card_vault[id].encrypted_data
       /\ \A code \in Codes, pin \in Pins, now \in Readings :
             StoreGiftCard("Amazon", code, pin, 25, "swagbucks.com", now) =>
                ret'.value \notin DOMAIN gift_card_vault]_vars

(* ---------------- a credit during a drain pass ---------------- *)
\* C29: when no drain pass is under way, every withdrawal ever queued is in
\* the withdrawal queue, or is processed and in its site's
\* withdrawal_history.
C29_NoWithdrawalDropped ==
    thr.pc = "idle" =>
       \A r \in DOMAIN objs :
          \/ \E i \in DOMAIN withdrawal_queue : withdrawal_queue[i] = r
          \/ /\ objs[r].status = "processed"
             /\ \E i \in DOMAIN points_ledger[objs[r].site].withdrawal_history :
                   points_ledger[objs[r].site].withdrawal_history[i] = r

(* ---------------- vault entries made by the drain ---------------- *)
\* the step is the executor call of a queued gift card withdrawal, with a driver
GiftCardExecution ==
    /\ thr.pc = "loop"
    /\ thr'.pc = "result"
    /\ objs[thr.q[thr.i]].withdrawal_type = "gift_card"
    /\ thr.driver

\* C28: the executor call of a gift card withdrawal with a driver adds
\* exactly one active vault entry, whose value is the withdrawal's
\* estimated_value and whose id is recorded on the withdrawal, and keeps the
\* entries there were; every other step of a drain pass leaves the vault as
\* it was.
C28_OneEntryPerGiftCard ==
    [][IF GiftCardExecution
       THEN LET r == thr.q[thr.i]
            IN \E id \in DOMAIN gift_card_vault' \ DOMAIN gift_card_vault :
                  /\ DOMAIN gift_card_vault' = DOMAIN gift_card_vault \cup {id}
                  /\ gift_card_vault'[id].status = "active"
                  /\ gift_card_vault'[id].value = objs[r].estimated_value
                  /\ objs'[r].gift_card_id = Some(id)
                  /\ \A k \in DOMAIN gift_card_vault :
                        gift_card_vault'[k] = gift_card_vault[k]
       ELSE gift_card_vault' = gift_card_vault]_vars

(* ---------------- progress of the drain ---------------- *)
\* C27: while the drain keeps being run, every queued withdrawal
\* eventually is in a terminal state, processed or failed.
C27_EventuallyTerminal ==
    \A r \in 1..MaxCredits :
       (r \in DOMAIN objs /\ objs[r].status = "queued")
          ~> (r \in DOMAIN objs /\ objs[r].status \in Terminal)

(* ---------------- a drain pass without a driver ---------------- *)
\* C30: process_withdrawal_queue(driver=None) returns an empty list and
\* leaves the withdrawal queue, the ledger (balances and withdrawal
\* histories), the withdrawals, the vault and the transaction history as
\* they were.
C30_DriverlessDrainChangesNothing ==
    [][\A now \in Clocks :
          ProcessWithdrawalQueue(FALSE, now) =>
             /\ ret'.processed = << >>
             /\ UNCHANGED <<points_ledger, withdrawal_queue, transaction_history,
                            gift_card_vault, objs>>]_vars

\* a pass without a driver has returned, on a queue that holds a crypto
\* withdrawal and a gift card withdrawal, both still queued
C30_Witness ==
    /\ ret.op = "process_withdrawal_queue"
    /\ ret.processed = << >>
    /\ \E i, j \in DOMAIN withdrawal_queue :
          /\ objs[withdrawal_queue[i]].withdrawal_type = "crypto"
          /\ objs[withdrawal_queue[j]].withdrawal_type = "gift_card"
          /\ objs[withdrawal_queue[i]].status = "queued"
          /\ objs[withdrawal_queue[j]].status = "queued"
    /\ gift_card_vault = << >>

====
